---- MODULE Spec2Model ----
(***************************************************************************)
(* Model of src/lib/data.ts of formulajs: the form-state builder           *)
(* (formDataFns) and the event-binding layer (eventHandlingFns).           *)
(*                                                                         *)
(* A control is a DOM element reduced to what data.ts reads of it: its     *)
(* tag (instanceof HTMLInputElement), name, type, value and checked flag.  *)
(* An InputValue is a string or a boolean; the two are kept apart by a     *)
(* tagged record, since getInputValue and onChange store either.           *)
(***************************************************************************)
EXTENDS Integers, Sequences, FiniteSets, TLC

\* ------------------------------------------------------------------ bounds
\* Longest control list handed to createFormData in the build specification.
MaxControls == 2

\* ------------------------------------------------------------------ values
Str(s) == [kind |-> "string", str |-> s, bool |-> FALSE]
Bool(b) == [kind |-> "boolean", str |-> "", bool |-> b]
Undefined == [kind |-> "undefined", str |-> "", bool |-> FALSE]

\* JavaScript truthiness of an InputValue (the left operand of || on line 36).
Truthy(v) ==
    \/ v.kind = "string" /\ v.str # ""
    \/ v.kind = "boolean" /\ v.bool

\* ------------------------------------------------------------------ Events
EventsChange == "change"
EventsFocus == "focus"
EventsBlur == "blur"
EventsSubmit == "submit"

\* ------------------------------------------------------------------ controls
isRadio(input) == input.tag = "input" /\ input.type = "radio"
isCheckbox(input) == input.tag = "input" /\ input.type = "checkbox"

\* Field names of the model.  "1" is a canonical array index, which an
\* object orders before its other keys; the others are ordinary names.
Names == {"a", "g", "1"}
IsArrayIndex(k) == k \in {"0", "1", "2"}
ArrayIndex(k) == CASE k = "0" -> 0 [] k = "1" -> 1 [] k = "2" -> 2 [] OTHER -> -1

RawValues == {"", "x"}

Control(tag, type, name, value, checked) ==
    [tag |-> tag, type |-> type, name |-> name, value |-> value, checked |-> checked]

AllControls ==
    {Control("input", "text", n, v, FALSE) : n \in Names, v \in RawValues}
    \cup {Control("select", "select-one", n, v, FALSE) : n \in Names, v \in RawValues}
    \cup {Control("input", "radio", n, v, c) : n \in Names, v \in RawValues, c \in BOOLEAN}
    \cup {Control("input", "checkbox", n, "on", c) : n \in Names, c \in BOOLEAN}

SeqsUpTo(S, n) == UNION {[1..k -> S] : k \in 0..n}

\* ------------------------------------------------------------------ formDataFns
\* getInputValue, lines 29-40.
getInputValue(input, previousInputValue) ==
    IF isRadio(input)
    THEN IF input.checked
         THEN Str(input.value)
         ELSE IF Truthy(previousInputValue) THEN previousInputValue ELSE Str("")
    ELSE IF isCheckbox(input)
         THEN Bool(input.checked)
         ELSE Str(input.value)

\* The own keys of an object after [k]: ... is defined on one whose keys are
\* ks: an existing key keeps its place, an array index goes among the array
\* indices in ascending order ahead of every other key, and any other new
\* key goes last.
RECURSIVE InsertIndex(_, _)
InsertIndex(ks, k) ==
    IF ks = <<>> \/ ~IsArrayIndex(Head(ks)) \/ ArrayIndex(Head(ks)) > ArrayIndex(k)
    THEN <<k>> \o ks
    ELSE <<Head(ks)>> \o InsertIndex(Tail(ks), k)

DefineKey(ks, k) ==
    IF \E i \in 1..Len(ks) : ks[i] = k THEN ks
    ELSE IF IsArrayIndex(k) THEN InsertIndex(ks, k)
    ELSE Append(ks, k)

\* A FormulaForm: keys is Object.keys of the object, at its properties.
EmptyForm == [keys |-> <<>>, at |-> [n \in {} |-> Undefined]]

Has(form, k) == k \in DOMAIN form.at

\* acc[cur.name]?.value
PreviousValue(acc, k) == IF Has(acc, k) THEN acc.at[k].value ELSE Undefined

NewField(input, acc) ==
    [value |-> getInputValue(input, PreviousValue(acc, input.name)),
     isValid |-> TRUE,
     isTouched |-> FALSE,
     isFocused |-> FALSE,
     isDirty |-> FALSE,
     errors |-> <<>>,
     inputType |-> IF input.tag = "input" THEN input.type ELSE "null"]

\* ReduceStep without the spread of acc: the entries built so far are lost.
ReduceStepNoSpread(acc, cur) ==
    [keys |-> <<cur.name>>,
     at |-> [n \in {cur.name} |-> NewField(cur, acc)]]

\* One step of the reduce, lines 9-22: {...acc, [cur.name]: {...}}.
ReduceStep(acc, cur) ==
    [keys |-> DefineKey(acc.keys, cur.name),
     at |-> [n \in DOMAIN acc.at \cup {cur.name} |->
                IF n = cur.name THEN NewField(cur, acc) ELSE acc.at[n]]]

RECURSIVE Reduce(_, _)
Reduce(acc, inputs) ==
    IF inputs = <<>> THEN acc
    ELSE Reduce(ReduceStep(acc, Head(inputs)), Tail(inputs))

\* createFormData, lines 8-24.
createFormData(inputs) == Reduce(EmptyForm, inputs)

\* ------------------------------------------------------------------ options
\* A FormulaFieldOptions as data.ts reads it.  validateOn "" stands for an
\* absent (or empty, equally falsy) validateOn; emitOn is an array that is
\* present or not; validateDirtyOnly is absent, true or false.
FieldOptions(validateOn, emitOn, validateDirtyOnly) ==
    [validateOn |-> validateOn, emitOn |-> emitOn, validateDirtyOnly |-> validateDirtyOnly]
Absent == [present |-> FALSE, list |-> <<>>]
List(l) == [present |-> TRUE, list |-> l]
\* inputOptions undefined: every inputOptions?.x is undefined.
NoOptions == FieldOptions("", Absent, "absent")

includes(list, x) == \E i \in 1..Len(list) : list[i] = x

\* ------------------------------------------------------------------ state
VARIABLES
    pc,              \* "start" before createFormData has run, "built" after
    inputs,          \* the controls of the form, in declaration order
    options,         \* the FormulaValidations of the session: name -> options
    formData,        \* the FormulaForm shared by every handler
    listeners,       \* per control, its registered listeners in registration order
    fns,             \* the ChangeCallbacks subscribeToInputChanges returned
    subscription,    \* "none", "on" (subscribed), "off" (unsubscribed)
    unsubscribedWith,\* the options unsubscribeFromInputChanges was called with
    submitListener,  \* whether onSubmit is registered on the form
    lastFocusBlur,   \* per name, the last of onFocus/onBlur that ran for it
    last             \* what the last operation did (its calls, in order)

vars == <<pc, inputs, options, formData, listeners, fns, subscription,
          unsubscribedWith, submitListener, lastFocusBlur, last>>

\* The names of the form's controls.
NamesOf(ins) == {ins[i].name : i \in 1..Len(ins)}

\* options && options[input.name]
OptionsFor(opts, name) == IF name \in DOMAIN opts THEN opts[name] ELSE NoOptions

\* ------------------------------------------------------------------ validation
\* validationFns.applyFieldValidation is not part of data.ts.  It is a
\* synchronous rule engine that replaces isValid and errors of the one field
\* it is called for, or throws.  The rules here: the empty string and an
\* unchecked box are invalid, the string "boom" makes a validator throw,
\* everything else is valid.
Verdict(value) ==
    IF value.kind = "boolean" THEN (IF value.bool THEN "valid" ELSE "invalid")
    ELSE IF value.str = "" THEN "invalid"
    ELSE IF value.str = "boom" THEN "throws"
    ELSE "valid"

\* The record a handler run threads through its statements: the form, the
\* emit calls so far, the applyFieldValidation calls so far (by control
\* index), whether an exception is propagating, the value read from the
\* event target, whether preventDefault was called, and the listener calls
\* made so far (which handler, for which control, how many events it
\* emitted, how often it called validation, whether an exception left it
\* and the state it left its field in), and the order in which
\* preventDefault, applyFieldValidation and emit were called.
Step(step, i, event) == [step |-> step, input |-> i, event |-> event]

\* The target of the event being handled, as dispatched; NoTarget outside
\* a dispatch.
NoTarget == [value |-> "", checked |-> FALSE]

Run(form) ==
    [form |-> form, out |-> <<>>, validated |-> <<>>, exc |-> FALSE,
     target |-> Undefined, prevented |-> FALSE, ran |-> <<>>, trace |-> <<>>,
     event |-> NoTarget]

applyFieldValidation(m, i) ==
    LET name == inputs[i].name
        v == Verdict(m.form.at[name].value)
        called == [m EXCEPT !.validated = Append(@, i),
                            !.trace = Append(@, Step("validate", i, ""))]
    IN  IF v = "throws" THEN [called EXCEPT !.exc = TRUE]
        ELSE [called EXCEPT !.form.at[name].isValid = (v = "valid"),
                            !.form.at[name].errors =
                                IF v = "valid" THEN <<>> ELSE <<"invalid">>]

\* emit(event, payload) of ./subscription: fire and forget.
emit(m, event, payload) ==
    [m EXCEPT !.out = Append(@, [event |-> event, payload |-> payload]),
              !.trace = Append(@, Step("emit", 0, event))]

\* ------------------------------------------------------------------ handlers
\* onFocus taking an empty emitOn for an absent one.
onFocusEmptyAllowsAll(m, i, inputOptions) ==
    LET name == inputs[i].name
        m1 == [m EXCEPT !.form.at[name].isFocused = TRUE]
    IN  IF ~inputOptions.emitOn.present
           \/ inputOptions.emitOn.list = <<>>
           \/ includes(inputOptions.emitOn.list, EventsFocus)
        THEN emit(m1, EventsFocus, m1.form.at[name])
        ELSE m1

\* onFocus validating its field like the other handlers.
onFocusValidates(m, i, inputOptions) ==
    LET name == inputs[i].name
        m1 == [m EXCEPT !.form.at[name].isFocused = TRUE]
        m2 == applyFieldValidation(m1, i)
    IN  IF m2.exc THEN m2
        ELSE IF ~inputOptions.emitOn.present
                \/ includes(inputOptions.emitOn.list, EventsFocus)
        THEN emit(m2, EventsFocus, m2.form.at[name])
        ELSE m2

\* The closure onFocus(input, formData, inputOptions) returns, lines 139-145.
onFocus(m, i, inputOptions) ==
    LET name == inputs[i].name
        m1 == [m EXCEPT !.form.at[name].isFocused = TRUE]
    IN  IF ~inputOptions.emitOn.present
           \/ includes(inputOptions.emitOn.list, EventsFocus)
        THEN emit(m1, EventsFocus, m1.form.at[name])
        ELSE m1

\* onBlur flipping isTouched on every blur instead of setting it once.
onBlurTogglesTouched(m, i, inputOptions) ==
    LET name == inputs[i].name
        m1 == [m EXCEPT !.form.at[name].isFocused = FALSE]
        t == [m1 EXCEPT !.form.at[name].isTouched = ~@]
        m2 == IF ~m1.form.at[name].isTouched /\ inputOptions.validateDirtyOnly = "false"
              THEN applyFieldValidation(t, i)
              ELSE t
    IN  IF m2.exc THEN m2
        ELSE IF ~inputOptions.emitOn.present
                \/ includes(inputOptions.emitOn.list, EventsBlur)
        THEN emit(m2, EventsBlur, m2.form.at[name])
        ELSE m2

\* onBlur without the reset of isFocused.
onBlurKeepsFocus(m, i, inputOptions) ==
    LET name == inputs[i].name
        m2 == IF ~m.form.at[name].isTouched
              THEN LET t == [m EXCEPT !.form.at[name].isTouched = TRUE]
                   IN  IF inputOptions.validateDirtyOnly = "false"
                       THEN applyFieldValidation(t, i)
                       ELSE t
              ELSE m
    IN  IF m2.exc THEN m2
        ELSE IF ~inputOptions.emitOn.present
                \/ includes(inputOptions.emitOn.list, EventsBlur)
        THEN emit(m2, EventsBlur, m2.form.at[name])
        ELSE m2

\* onBlur validating unless validateDirtyOnly is true: an absent option is
\* taken for false.
onBlurValidatesUnlessTrue(m, i, inputOptions) ==
    LET name == inputs[i].name
        m1 == [m EXCEPT !.form.at[name].isFocused = FALSE]
        m2 == IF ~m1.form.at[name].isTouched
              THEN LET t == [m1 EXCEPT !.form.at[name].isTouched = TRUE]
                   IN  IF inputOptions.validateDirtyOnly # "true"
                       THEN applyFieldValidation(t, i)
                       ELSE t
              ELSE m1
    IN  IF m2.exc THEN m2
        ELSE IF ~inputOptions.emitOn.present
                \/ includes(inputOptions.emitOn.list, EventsBlur)
        THEN emit(m2, EventsBlur, m2.form.at[name])
        ELSE m2

\* onBlur clearing isFocused of every field of the form.
onBlurBlursAll(m, i, inputOptions) ==
    LET name == inputs[i].name
        m1 == [m EXCEPT !.form.at =
                  [n \in DOMAIN m.form.at |-> [m.form.at[n] EXCEPT !.isFocused = FALSE]]]
        m2 == IF ~m1.form.at[name].isTouched
              THEN LET t == [m1 EXCEPT !.form.at[name].isTouched = TRUE]
                   IN  IF inputOptions.validateDirtyOnly = "false"
                       THEN applyFieldValidation(t, i)
                       ELSE t
              ELSE m1
    IN  IF m2.exc THEN m2
        ELSE IF ~inputOptions.emitOn.present
                \/ includes(inputOptions.emitOn.list, EventsBlur)
        THEN emit(m2, EventsBlur, m2.form.at[name])
        ELSE m2

\* The closure onBlur(input, formData, inputOptions) returns, lines 157-171.
onBlur(m, i, inputOptions) ==
    LET name == inputs[i].name
        m1 == [m EXCEPT !.form.at[name].isFocused = FALSE]
        m2 == IF ~m1.form.at[name].isTouched
              THEN LET t == [m1 EXCEPT !.form.at[name].isTouched = TRUE]
                   IN  IF inputOptions.validateDirtyOnly = "false"
                       THEN applyFieldValidation(t, i)
                       ELSE t
              ELSE m1
    IN  IF m2.exc THEN m2
        ELSE IF ~inputOptions.emitOn.present
                \/ includes(inputOptions.emitOn.list, EventsBlur)
        THEN emit(m2, EventsBlur, m2.form.at[name])
        ELSE m2

\* onChange emitting whatever emitOn says.
onChangeAlwaysEmits(m, i, inputOptions, target) ==
    LET name == inputs[i].name
        selectedEvent ==
            IF inputOptions.validateOn # "" THEN inputOptions.validateOn
            ELSE EventsChange
        read == IF isCheckbox(inputs[i]) THEN Bool(target.checked)
                ELSE Str(target.value)
        m1 == [m EXCEPT !.form.at[name].value = read, !.target = read]
        m2 == applyFieldValidation(m1, i)
        m3 == IF ~m2.form.at[name].isDirty
              THEN [m2 EXCEPT !.form.at[name].isDirty = TRUE]
              ELSE m2
    IN  IF m2.exc THEN m2
        ELSE emit(m3, selectedEvent, m3.form.at[name])

\* onChange setting isDirty before it validates.
onChangeDirtyFirst(m, i, inputOptions, target) ==
    LET name == inputs[i].name
        selectedEvent ==
            IF inputOptions.validateOn # "" THEN inputOptions.validateOn
            ELSE EventsChange
        read == IF isCheckbox(inputs[i]) THEN Bool(target.checked)
                ELSE Str(target.value)
        m1 == [m EXCEPT !.form.at[name].value = read, !.target = read,
                        !.form.at[name].isDirty = TRUE]
        m2 == applyFieldValidation(m1, i)
    IN  IF m2.exc THEN m2
        ELSE IF ~inputOptions.emitOn.present
                \/ includes(inputOptions.emitOn.list, selectedEvent)
        THEN emit(m2, selectedEvent, m2.form.at[name])
        ELSE m2

\* onChange storing target.value for every control, checkboxes included.
onChangeRawValue(m, i, inputOptions, target) ==
    LET name == inputs[i].name
        selectedEvent ==
            IF inputOptions.validateOn # "" THEN inputOptions.validateOn
            ELSE EventsChange
        read == Str(target.value)
        m1 == [m EXCEPT !.form.at[name].value = read, !.target = read]
        m2 == applyFieldValidation(m1, i)
        m3 == IF ~m2.form.at[name].isDirty
              THEN [m2 EXCEPT !.form.at[name].isDirty = TRUE]
              ELSE m2
    IN  IF m2.exc THEN m2
        ELSE IF ~inputOptions.emitOn.present
                \/ includes(inputOptions.emitOn.list, selectedEvent)
        THEN emit(m3, selectedEvent, m3.form.at[name])
        ELSE m3

\* onChange emitting under the fixed name change.
onChangeFixedLabel(m, i, inputOptions, target) ==
    LET name == inputs[i].name
        selectedEvent ==
            IF inputOptions.validateOn # "" THEN inputOptions.validateOn
            ELSE EventsChange
        read == IF isCheckbox(inputs[i]) THEN Bool(target.checked)
                ELSE Str(target.value)
        m1 == [m EXCEPT !.form.at[name].value = read, !.target = read]
        m2 == applyFieldValidation(m1, i)
        m3 == IF ~m2.form.at[name].isDirty
              THEN [m2 EXCEPT !.form.at[name].isDirty = TRUE]
              ELSE m2
    IN  IF m2.exc THEN m2
        ELSE IF ~inputOptions.emitOn.present
                \/ includes(inputOptions.emitOn.list, selectedEvent)
        THEN emit(m3, EventsChange, m3.form.at[name])
        ELSE m3

\* onChange marking the field dirty only when validation found it valid.
onChangeDirtyIfValid(m, i, inputOptions, target) ==
    LET name == inputs[i].name
        selectedEvent ==
            IF inputOptions.validateOn # "" THEN inputOptions.validateOn
            ELSE EventsChange
        read == IF isCheckbox(inputs[i]) THEN Bool(target.checked)
                ELSE Str(target.value)
        m1 == [m EXCEPT !.form.at[name].value = read, !.target = read]
        m2 == applyFieldValidation(m1, i)
        m3 == IF ~m2.form.at[name].isDirty /\ m2.form.at[name].isValid
              THEN [m2 EXCEPT !.form.at[name].isDirty = TRUE]
              ELSE m2
    IN  IF m2.exc THEN m2
        ELSE IF ~inputOptions.emitOn.present
                \/ includes(inputOptions.emitOn.list, selectedEvent)
        THEN emit(m3, selectedEvent, m3.form.at[name])
        ELSE m3

\* onChange emitting before it marks the field dirty.
onChangeEmitsBeforeDirty(m, i, inputOptions, target) ==
    LET name == inputs[i].name
        selectedEvent ==
            IF inputOptions.validateOn # "" THEN inputOptions.validateOn
            ELSE EventsChange
        read == IF isCheckbox(inputs[i]) THEN Bool(target.checked)
                ELSE Str(target.value)
        m1 == [m EXCEPT !.form.at[name].value = read, !.target = read]
        m2 == applyFieldValidation(m1, i)
        m3 == IF ~inputOptions.emitOn.present
                 \/ includes(inputOptions.emitOn.list, selectedEvent)
              THEN emit(m2, selectedEvent, m2.form.at[name])
              ELSE m2
    IN  IF m2.exc THEN m2
        ELSE [m3 EXCEPT !.form.at[name].isDirty = TRUE]

\* onChange validating the stored value before it writes the new one.
onChangeValidateFirst(m, i, inputOptions, target) ==
    LET name == inputs[i].name
        selectedEvent ==
            IF inputOptions.validateOn # "" THEN inputOptions.validateOn
            ELSE EventsChange
        read == IF isCheckbox(inputs[i]) THEN Bool(target.checked)
                ELSE Str(target.value)
        m1 == applyFieldValidation(m, i)
        m2 == [m1 EXCEPT !.form.at[name].value = read, !.target = read]
        m3 == IF ~m2.form.at[name].isDirty
              THEN [m2 EXCEPT !.form.at[name].isDirty = TRUE]
              ELSE m2
    IN  IF m1.exc THEN m1
        ELSE IF ~inputOptions.emitOn.present
                \/ includes(inputOptions.emitOn.list, selectedEvent)
        THEN emit(m3, selectedEvent, m3.form.at[name])
        ELSE m3

\* The closure onChange(input, formData, inputOptions) returns, lines 183-201.
\* target is the control the event was dispatched on, as it is at that time.
onChange(m, i, inputOptions, target) ==
    LET name == inputs[i].name
        selectedEvent ==
            IF inputOptions.validateOn # "" THEN inputOptions.validateOn
            ELSE EventsChange
        read == IF isCheckbox(inputs[i]) THEN Bool(target.checked)
                ELSE Str(target.value)
        m1 == [m EXCEPT !.form.at[name].value = read, !.target = read]
        m2 == applyFieldValidation(m1, i)
        m3 == IF ~m2.form.at[name].isDirty
              THEN [m2 EXCEPT !.form.at[name].isDirty = TRUE]
              ELSE m2
    IN  IF m2.exc THEN m2
        ELSE IF ~inputOptions.emitOn.present
                \/ includes(inputOptions.emitOn.list, selectedEvent)
        THEN emit(m3, selectedEvent, m3.form.at[name])
        ELSE m3

\* The loop of onSubmit with isValid assigned each field's validity, so that
\* the last control decides.
RECURSIVE SubmitLoopLastWins(_, _, _)
SubmitLoopLastWins(m, k, isValid) ==
    IF k > Len(inputs) THEN [run |-> m, isValid |-> isValid]
    ELSE LET m1 == applyFieldValidation(m, k)
         IN  IF m1.exc THEN [run |-> m1, isValid |-> isValid]
             ELSE SubmitLoopLastWins(m1, k + 1, m1.form.at[inputs[k].name].isValid)

\* The loop of onSubmit from control k on, lines 217-227.
RECURSIVE SubmitLoop(_, _, _)
SubmitLoop(m, k, isValid) ==
    IF k > Len(inputs) THEN [run |-> m, isValid |-> isValid]
    ELSE LET m1 == applyFieldValidation(m, k)
         IN  IF m1.exc THEN [run |-> m1, isValid |-> isValid]
             ELSE SubmitLoop(m1, k + 1,
                             IF ~m1.form.at[inputs[k].name].isValid THEN FALSE
                             ELSE isValid)

\* onSubmit emitting in a finally block: the event goes out although the
\* exception propagates.
onSubmitEmitsAnyway(m) ==
    LET m1 == [m EXCEPT !.prevented = TRUE,
                        !.trace = Append(@, Step("preventDefault", 0, ""))]
        r == SubmitLoop(m1, 1, TRUE)
    IN  emit(r.run, EventsSubmit, [formData |-> r.run.form, isValid |-> r.isValid])

\* onSubmit calling preventDefault after the loop instead of first.
onSubmitPreventsLast(m) ==
    LET r == SubmitLoop(m, 1, TRUE)
        m1 == [r.run EXCEPT !.prevented = TRUE,
                            !.trace = Append(@, Step("preventDefault", 0, ""))]
    IN  IF r.run.exc THEN r.run
        ELSE emit(m1, EventsSubmit, [formData |-> m1.form, isValid |-> r.isValid])

\* The closure onSubmit(inputs, formData, options) returns, lines 213-230.
onSubmit(m) ==
    LET m1 == [m EXCEPT !.prevented = TRUE,
                        !.trace = Append(@, Step("preventDefault", 0, ""))]
        r == SubmitLoop(m1, 1, TRUE)
    IN  IF r.run.exc THEN r.run
        ELSE emit(r.run, EventsSubmit,
                  [formData |-> r.run.form, isValid |-> r.isValid])

\* ------------------------------------------------------------------ listeners
\* A registered listener: the event type it is registered for and the
\* closure, which is known by the handler it came from and the control and
\* options it captured.
Listener(type, handler, i, inputOptions) ==
    [type |-> type, handler |-> handler, input |-> i, inputOptions |-> inputOptions]

\* EventTarget.removeEventListener(type, callback): the callback is the one
\* the handle set holds, the closure of handler made for control owner.
removeEventListener(ls, type, handler, owner) ==
    SelectSeq(ls, LAMBDA l : ~(l.type = type /\ l.handler = handler /\ l.input = owner))

RunListener(m, l, target) ==
    CASE l.handler = EventsChange -> onChange(m, l.input, l.inputOptions, target)
      [] l.handler = EventsFocus -> onFocus(m, l.input, l.inputOptions)
      [] l.handler = EventsBlur -> onBlur(m, l.input, l.inputOptions)

\* EventTarget.dispatchEvent: the listeners registered for the type run in
\* registration order; an exception leaving one is reported to the host and
\* the next listener still runs.
RECURSIVE DispatchTo(_, _, _, _)
DispatchTo(m, ls, type, target) ==
    IF ls = <<>> THEN m
    ELSE LET l == Head(ls)
             r == RunListener(m, l, target)
             call == [handler |-> l.handler, input |-> l.input,
                      emitted |-> Len(r.out) - Len(m.out),
                      validations |-> Len(r.validated) - Len(m.validated),
                      threw |-> r.exc,
                      field |-> r.form.at[inputs[l.input].name]]
             done == [r EXCEPT !.ran = Append(@, call), !.exc = FALSE]
         IN  IF l.type = type THEN DispatchTo(done, Tail(ls), type, target)
             ELSE DispatchTo(m, Tail(ls), type, target)

\* ------------------------------------------------------------------ configurations
TextA == Control("input", "text", "a", "", FALSE)
TextG == Control("input", "text", "g", "x", FALSE)
CheckA == Control("input", "checkbox", "a", "on", FALSE)
CheckedA == Control("input", "checkbox", "a", "on", TRUE)
RadioX == Control("input", "radio", "g", "x", TRUE)
RadioY == Control("input", "radio", "g", "y", FALSE)

ValidateOnChoices == {"", "input", EventsBlur}
EmitOnChoices ==
    {Absent, List(<<>>), List(<<EventsBlur>>), List(<<EventsFocus>>),
     List(<<EventsChange>>), List(<<"input">>)}
ValidateDirtyOnlyChoices == {"absent", "true", "false"}
AllFieldOptions ==
    {FieldOptions(v, e, d) :
        v \in ValidateOnChoices, e \in EmitOnChoices, d \in ValidateDirtyOnlyChoices}
SharedFieldOptions ==
    {NoOptions,
     FieldOptions("input", List(<<EventsBlur>>), "false")}

\* A session is a form and its options.  A form of one control takes any
\* field options; a form of two takes the shared ones, for every name or
\* for the first control's name alone.
Session(ins, opts) == [inputs |-> ins, options |-> opts]

OneControlSessions ==
    {Session(<<c>>, [n \in {c.name} |-> o]) :
        c \in {TextA, CheckA}, o \in AllFieldOptions}
    \cup {Session(<<CheckedA>>, [n \in {} |-> NoOptions])}

TwoControlForms ==
    {<<TextA, TextG>>, <<CheckA, TextG>>, <<RadioX, RadioY>>}

TwoControlSessions ==
    {Session(f, [n \in NamesOf(f) |-> o]) :
        f \in TwoControlForms, o \in SharedFieldOptions}
    \cup {Session(f, [n \in {f[1].name} |-> o]) :
        f \in TwoControlForms, o \in SharedFieldOptions \ {NoOptions}}

Sessions == OneControlSessions \cup TwoControlSessions

\* What the event target reads as at dispatch time.  Only onChange reads
\* it, so a dispatch that reaches no onChange listener draws one target.
Targets(i, type) ==
    LET input == inputs[i]
        all == IF isCheckbox(input)
               THEN {[value |-> "on", checked |-> c] : c \in BOOLEAN}
               ELSE {[value |-> v, checked |-> input.checked] : v \in {"", "x", "boom"}}
    IN  IF \E k \in 1..Len(listeners[i]) :
               listeners[i][k].type = type /\ listeners[i][k].handler = EventsChange
        THEN all
        ELSE {[value |-> input.value, checked |-> input.checked]}

DispatchTypes == {EventsChange, "input", EventsFocus, EventsBlur}

Did(op, i, type, m) ==
    [op |-> op, input |-> i, type |-> type, ran |-> m.ran, validated |-> m.validated,
     out |-> m.out, target |-> m.target, prevented |-> m.prevented,
     trace |-> m.trace, event |-> m.event]

Nothing == Run(EmptyForm)

\* ------------------------------------------------------------------ operations
InitWith(sessions) ==
    /\ pc = "start"
    /\ \E s \in sessions : inputs = s.inputs /\ options = s.options
    /\ formData = EmptyForm
    /\ listeners = [i \in 1..Len(inputs) |-> <<>>]
    /\ fns = [n \in {} |-> 0]
    /\ subscription = "none"
    /\ unsubscribedWith = [n \in {} |-> NoOptions]
    /\ submitListener = FALSE
    /\ lastFocusBlur = [n \in NamesOf(inputs) |-> "none"]
    /\ last = Did("none", 0, "", Nothing)

Init == InitWith(Sessions)

CreateFormData ==
    /\ pc = "start"
    /\ pc' = "built"
    /\ formData' = createFormData(inputs)
    /\ last' = Did("createFormData", 0, "", Nothing)
    /\ UNCHANGED <<inputs, options, listeners, fns, subscription, unsubscribedWith,
                   submitListener, lastFocusBlur>>

\* subscribeToInputChanges(inputs, formData, options), lines 60-87.
SubscribeToInputChanges ==
    /\ pc = "built"
    /\ subscription = "none"
    /\ subscription' = "on"
    /\ fns' = [n \in NamesOf(inputs) |->
                  CHOOSE i \in 1..Len(inputs) :
                      /\ inputs[i].name = n
                      /\ \A j \in 1..Len(inputs) : inputs[j].name = n => j <= i]
    /\ listeners' = [i \in 1..Len(inputs) |->
          LET inputOptions == OptionsFor(options, inputs[i].name)
              type == IF inputOptions.validateOn # "" THEN inputOptions.validateOn
                      ELSE EventsChange
          IN  listeners[i] \o
                  <<Listener(type, EventsChange, i, inputOptions),
                    Listener(EventsFocus, EventsFocus, i, inputOptions),
                    Listener(EventsBlur, EventsBlur, i, inputOptions)>>]
    /\ last' = Did("subscribe", 0, "", Nothing)
    /\ UNCHANGED <<pc, inputs, options, formData, unsubscribedWith, submitListener,
                   lastFocusBlur>>

\* unsubscribeFromInputChanges(inputs, fns, opts), lines 92-106.
UnsubscribeFromInputChanges(opts) ==
    /\ subscription = "on"
    /\ subscription' = "off"
    /\ unsubscribedWith' = opts
    /\ listeners' = [i \in 1..Len(inputs) |->
          LET inputOptions == OptionsFor(opts, inputs[i].name)
              type == IF inputOptions.validateOn # "" THEN inputOptions.validateOn
                      ELSE EventsChange
              owner == fns[inputs[i].name]
              l1 == removeEventListener(listeners[i], type, EventsChange, owner)
              l2 == removeEventListener(l1, EventsFocus, EventsFocus, owner)
          IN  removeEventListener(l2, EventsBlur, EventsBlur, owner)]
    /\ last' = Did("unsubscribe", 0, "", Nothing)
    /\ UNCHANGED <<pc, inputs, options, formData, fns, submitListener, lastFocusBlur>>

\* subscribeToSubmitEvent(form, inputs, formData, options), lines 111-121.
SubscribeToSubmitEvent ==
    /\ pc = "built"
    /\ ~submitListener
    /\ submitListener' = TRUE
    /\ last' = Did("subscribeSubmit", 0, "", Nothing)
    /\ UNCHANGED <<pc, inputs, options, formData, listeners, fns, subscription,
                   unsubscribedWith, lastFocusBlur>>

\* unsubscribeFromSubmitEvent(form, callback), lines 126-128.
UnsubscribeFromSubmitEvent ==
    /\ submitListener
    /\ submitListener' = FALSE
    /\ last' = Did("unsubscribeSubmit", 0, "", Nothing)
    /\ UNCHANGED <<pc, inputs, options, formData, listeners, fns, subscription,
                   unsubscribedWith, lastFocusBlur>>

\* The host dispatches an event of the given type on control i.
Dispatch(i, type, target) ==
    /\ pc = "built"
    /\ LET m == DispatchTo([Run(formData) EXCEPT !.event = target],
                            listeners[i], type, target)
           name == inputs[i].name
       IN  /\ formData' = m.form
           /\ last' = Did("dispatch", i, type, m)
           /\ lastFocusBlur' =
                 IF \E k \in 1..Len(m.ran) : m.ran[k].handler = EventsFocus
                 THEN [lastFocusBlur EXCEPT ![name] = EventsFocus]
                 ELSE IF \E k \in 1..Len(m.ran) : m.ran[k].handler = EventsBlur
                 THEN [lastFocusBlur EXCEPT ![name] = EventsBlur]
                 ELSE lastFocusBlur
    /\ UNCHANGED <<pc, inputs, options, listeners, fns, subscription, unsubscribedWith,
                   submitListener>>

\* The host dispatches submit on the form.
Submit ==
    /\ submitListener
    /\ LET r == onSubmit(Run(formData))
           call == [handler |-> EventsSubmit, input |-> 0,
                    emitted |-> Len(r.out), validations |-> Len(r.validated),
                    threw |-> r.exc, field |-> Undefined]
           m == [r EXCEPT !.ran = <<call>>]
       IN  /\ formData' = m.form
           /\ last' = Did("submit", 0, EventsSubmit, m)
    /\ UNCHANGED <<pc, inputs, options, listeners, fns, subscription, unsubscribedWith,
                   submitListener, lastFocusBlur>>

Next ==
    \/ CreateFormData
    \/ SubscribeToInputChanges
    \/ \E opts \in {options, [n \in {} |-> NoOptions]} : UnsubscribeFromInputChanges(opts)
    \/ SubscribeToSubmitEvent
    \/ UnsubscribeFromSubmitEvent
    \/ \E i \in 1..Len(inputs), type \in DispatchTypes :
          \E target \in Targets(i, type) : Dispatch(i, type, target)
    \/ Submit

Spec == Init /\ [][Next]_vars

\* The build alone, over every control list up to MaxControls.
InitBuild ==
    InitWith({Session(f, [n \in {} |-> NoOptions]) : f \in SeqsUpTo(AllControls, MaxControls)})

NextBuild == CreateFormData

SpecBuild == InitBuild /\ [][NextBuild]_vars

\* ------------------------------------------------------------------ claims
\* The options the handlers of control i captured at subscription.
Captured(i) == OptionsFor(options, inputs[i].name)

\* The trigger name a listener call gates its emit on.
TriggerOf(call) ==
    IF call.handler = EventsChange
    THEN (IF Captured(call.input).validateOn # "" THEN Captured(call.input).validateOn
          ELSE EventsChange)
    ELSE call.handler

Dispatched == last.op = "dispatch"

\* C1: after unsubscribeFromInputChanges was called with the subscribed
\* controls, the returned handle set and the options of the subscription, no
\* dispatch on any control mutates the form or publishes an event.
C1_UnsubscribeCompleteness ==
    [][(subscription = "off" /\ unsubscribedWith = options /\ last'.op = "dispatch")
          => (formData' = formData /\ last'.out = <<>>)]_vars

\* The field of the last dispatch is subscribed with emitOn exactly [blur].
EmitOnBlurOnly ==
    /\ Dispatched
    /\ subscription = "on"
    /\ Captured(last.input).emitOn = List(<<EventsBlur>>)

\* C2 as stated: a subscribed field whose emitOn is exactly [blur] publishes
\* no change and no focus event, and exactly one blur event per blur trigger.
C2_BlurOnlyExactlyOne ==
    EmitOnBlurOnly =>
        /\ \A k \in 1..Len(last.out) :
              last.out[k].event \notin {EventsChange, "input", EventsFocus}
        /\ last.type = EventsBlur =>
              Len(last.out) = 1 /\ last.out[1].event = EventsBlur

\* C2 amended: with emitOn exactly [blur] nothing is published under a name
\* other than blur and triggers other than blur publish nothing; on a blur
\* trigger onBlur runs once and publishes one blur event unless validation
\* throws inside it, and when validateOn is blur the onChange registered on
\* that trigger publishes one more event named blur unless it throws.
C2_BlurOnlyGating ==
    EmitOnBlurOnly =>
        /\ \A k \in 1..Len(last.out) : last.out[k].event = EventsBlur
        /\ last.type # EventsBlur => last.out = <<>>
        /\ last.type = EventsBlur =>
              /\ Cardinality({k \in 1..Len(last.ran) :
                                 last.ran[k].handler = EventsBlur}) = 1
              /\ \A k \in 1..Len(last.ran) :
                    /\ last.ran[k].handler \in {EventsBlur, EventsChange}
                    /\ last.ran[k].emitted = IF last.ran[k].threw THEN 0 ELSE 1
              /\ (\E k \in 1..Len(last.ran) : last.ran[k].handler = EventsChange)
                    <=> Captured(last.input).validateOn = EventsBlur

C2_Witness ==
    /\ EmitOnBlurOnly
    /\ last.type = EventsBlur
    /\ Len(last.out) = 1
    /\ last.out[1].event = EventsBlur
    /\ Captured(last.input).validateOn = "input"
    /\ Captured(last.input).validateDirtyOnly = "false"

\* C3 as stated: a handler call publishes its event iff emitOn is absent,
\* is the empty list, or contains the call's trigger name.
C3_AbsentOrEmptyAllowsAll ==
    Dispatched =>
        \A k \in 1..Len(last.ran) :
            LET call == last.ran[k]
                emitOn == Captured(call.input).emitOn
            IN  call.emitted = 1 <=>
                    \/ ~emitOn.present
                    \/ emitOn.list = <<>>
                    \/ includes(emitOn.list, TriggerOf(call))

\* C3 amended: a handler call that validation does not throw in publishes
\* exactly one event if emitOn is absent or contains the call's trigger name
\* and none otherwise (an empty emitOn allows nothing); a call that
\* validation throws in publishes nothing.
C3_AllowList ==
    Dispatched =>
        \A k \in 1..Len(last.ran) :
            LET call == last.ran[k]
                emitOn == Captured(call.input).emitOn
            IN  /\ call.emitted \in {0, 1}
                /\ call.emitted = 1 <=>
                      /\ ~call.threw
                      /\ ~emitOn.present \/ includes(emitOn.list, TriggerOf(call))

C3_Witness ==
    /\ Dispatched
    /\ \E k \in 1..Len(last.ran) :
          /\ Captured(last.ran[k].input).emitOn = List(<<>>)
          /\ ~last.ran[k].threw
          /\ last.ran[k].emitted = 0

\* C4: once isTouched is true of a field it stays true, and once isDirty is
\* true it stays true, whatever handler runs and whether or not validation
\* throws in it.
C4_Monotonic ==
    [][\A n \in DOMAIN formData.at :
          /\ formData.at[n].isTouched => formData'.at[n].isTouched
          /\ formData.at[n].isDirty => formData'.at[n].isDirty]_vars

C4_Witness ==
    /\ Dispatched
    /\ \E k \in 1..Len(last.ran) : last.ran[k].threw
    /\ formData.at[inputs[last.input].name].isTouched
    /\ formData.at[inputs[last.input].name].isDirty

\* C5: a field's isFocused is true exactly when the last of onFocus and
\* onBlur to run for it was onFocus (false before either ran); onChange and
\* onSubmit leave it alone.
C5_FocusWindow ==
    \A n \in DOMAIN formData.at :
        formData.at[n].isFocused <=> lastFocusBlur[n] = EventsFocus

C5_Witness ==
    /\ last.op = "submit"
    /\ \E n \in DOMAIN formData.at :
          formData.at[n].isFocused /\ formData.at[n].isTouched /\ formData.at[n].isDirty

Submitted == last.op = "submit"

\* C6: a submit in which no validation throws validates every control, in
\* order and without stopping at an invalid field, and publishes exactly one
\* submit event whose isValid is the conjunction of every field's isValid
\* after validation and whose payload is the whole form.
C6_SubmitAggregation ==
    (Submitted /\ ~last.ran[1].threw) =>
        /\ last.validated = [k \in 1..Len(inputs) |-> k]
        /\ Len(last.out) = 1
        /\ last.out[1].event = EventsSubmit
        /\ last.out[1].payload.isValid =
              (\A n \in DOMAIN formData.at : formData.at[n].isValid)
        /\ last.out[1].payload.formData = formData
        /\ DOMAIN last.out[1].payload.formData.at = NamesOf(inputs)

C6_Witness ==
    /\ Submitted
    /\ ~last.ran[1].threw
    /\ Len(inputs) = 2
    /\ ~formData.at[inputs[1].name].isValid
    /\ formData.at[inputs[2].name].isValid
    /\ last.validated = <<1, 2>>
    /\ ~last.out[1].payload.isValid

\* C7: a submit in which validation of a field throws stops at that field:
\* the controls validated are those up to and including the throwing one
\* and no submit event is published.
C7_SubmitAborts ==
    (Submitted /\ last.ran[1].threw) =>
        LET k == Len(last.validated)
        IN  /\ last.out = <<>>
            /\ k \in 1..Len(inputs)
            /\ last.validated = [j \in 1..k |-> j]
            /\ Verdict(formData.at[inputs[k].name].value) = "throws"
            /\ \A j \in 1..(k - 1) :
                  Verdict(formData.at[inputs[j].name].value) # "throws"

C7_Witness ==
    /\ Submitted
    /\ last.ran[1].threw
    /\ Len(last.validated) < Len(inputs)
    /\ last.prevented

\* C8: a call of onChange that validation throws in leaves the field's
\* isDirty as it was and publishes nothing, leaves every other field as it
\* was and detaches no listener; while subscribed every control keeps its
\* three listeners, so later triggers are handled.
C8_ChangeFailureIsolation ==
    /\ [][last'.op = "dispatch" =>
            \A k \in 1..Len(last'.ran) :
                LET call == last'.ran[k]
                    name == inputs[call.input].name
                IN  (call.handler = EventsChange /\ call.threw) =>
                        /\ call.emitted = 0
                        /\ formData'.at[name].isDirty = formData.at[name].isDirty
                        /\ \A n \in DOMAIN formData.at \ {name} :
                              formData'.at[n] = formData.at[n]
                        /\ listeners' = listeners]_vars
    /\ [](subscription = "on" =>
            \A i \in 1..Len(inputs) :
                {listeners[i][k].handler : k \in 1..Len(listeners[i])}
                    = {EventsChange, EventsFocus, EventsBlur})

C8_Witness ==
    /\ Dispatched
    /\ Len(inputs) = 2
    /\ \E k \in 1..Len(last.ran) :
          last.ran[k].handler = EventsChange /\ last.ran[k].threw
    /\ ~formData.at[inputs[last.input].name].isDirty
    /\ \E n \in DOMAIN formData.at : formData.at[n].isDirty

\* The names of the controls are pairwise distinct.
DistinctNames ==
    \A i, j \in 1..Len(inputs) : inputs[i].name = inputs[j].name => i = j

Built == pc = "built"

InitialField(f) ==
    /\ f.isValid
    /\ ~f.isTouched
    /\ ~f.isFocused
    /\ ~f.isDirty
    /\ f.errors = <<>>

\* The first control of the list that has the name.
FirstOf(n) == CHOOSE i \in 1..Len(inputs) :
    inputs[i].name = n /\ \A j \in 1..(i - 1) : inputs[j].name # n

C10_RadioPreviousValue ==
    Built =>
        \A k \in 1..Len(inputs) :
            LET before == createFormData(SubSeq(inputs, 1, k - 1))
                after == createFormData(SubSeq(inputs, 1, k))
                name == inputs[k].name
            IN  isRadio(inputs[k]) =>
                    after.at[name].value =
                        IF inputs[k].checked THEN Str(inputs[k].value)
                        ELSE IF Has(before, name) THEN before.at[name].value
                        ELSE Str("")

\* control i is the last control of its name.
LastOfName(i) == \A j \in (i + 1)..Len(inputs) : inputs[j].name # inputs[i].name

\* C11: the value stored for a checkbox is the boolean checked state of the
\* control, right after createFormData and right after every call of its
\* onChange (whether or not validation throws in it); it is never the value
\* attribute.
C11_CheckboxBoolean ==
    /\ last.op = "createFormData" =>
          \A i \in 1..Len(inputs) :
              (isCheckbox(inputs[i]) /\ LastOfName(i)) =>
                  formData.at[inputs[i].name].value = Bool(inputs[i].checked)
    /\ Dispatched =>
          \A k \in 1..Len(last.ran) :
              (last.ran[k].handler = EventsChange /\ isCheckbox(inputs[last.ran[k].input]))
                  => last.ran[k].field.value = Bool(last.event.checked)

C11_Witness ==
    /\ Dispatched
    /\ isCheckbox(inputs[last.input])
    /\ last.event.checked
    /\ \E k \in 1..Len(last.ran) : last.ran[k].handler = EventsChange
    /\ formData.at[inputs[last.input].name].value = Bool(TRUE)

\* The last dispatch was of the resolved change trigger of a subscribed
\* control that is no checkbox, and no validation threw in it.
ChangeHandled ==
    /\ Dispatched
    /\ subscription = "on"
    /\ ~isCheckbox(inputs[last.input])
    /\ last.type = TriggerOf([handler |-> EventsChange, input |-> last.input])
    /\ \A k \in 1..Len(last.ran) : ~last.ran[k].threw

\* emitOn of the control of the last dispatch permits the dispatched type.
Permitted ==
    \/ ~Captured(last.input).emitOn.present
    \/ includes(Captured(last.input).emitOn.list, last.type)

\* C12 as stated: such a dispatch leaves the stored value equal to the
\* control's raw value and isDirty true, and publishes exactly one event,
\* named with the resolved trigger, when emitOn permits it and none otherwise.
C12_OneEventPerDispatch ==
    ChangeHandled =>
        /\ formData.at[inputs[last.input].name].value = Str(last.event.value)
        /\ formData.at[inputs[last.input].name].isDirty
        /\ Len(last.out) = IF Permitted THEN 1 ELSE 0
        /\ \A k \in 1..Len(last.out) : last.out[k].event = last.type

\* C12 amended: such a dispatch leaves the stored value equal to the
\* control's raw value and isDirty true; onChange runs first and publishes
\* exactly one event, named with the resolved trigger, when emitOn permits
\* it and none otherwise; when the resolved trigger is blur (or focus) the
\* onBlur (onFocus) registered on the same event runs after it and publishes
\* its own event under the same gating.
C12_ChangeResult ==
    ChangeHandled =>
        /\ formData.at[inputs[last.input].name].value = Str(last.event.value)
        /\ formData.at[inputs[last.input].name].isDirty
        /\ last.ran # <<>>
        /\ last.ran[1].handler = EventsChange
        /\ \A k \in 1..Len(last.ran) :
              /\ last.ran[k].emitted = IF Permitted THEN 1 ELSE 0
              /\ k > 1 => /\ last.ran[k].handler = last.type
                          /\ last.type \in {EventsFocus, EventsBlur}
        /\ Len(last.ran) = IF last.type \in {EventsFocus, EventsBlur} THEN 2 ELSE 1
        /\ Len(last.out) = IF Permitted THEN Len(last.ran) ELSE 0
        /\ \A k \in 1..Len(last.out) : last.out[k].event = last.type

C12_Witness ==
    /\ ChangeHandled
    /\ last.type = "input"
    /\ last.event.value = "x"
    /\ Len(last.out) = 1
    /\ last.out[1].event = "input"
    /\ last.out[1].payload.value = Str("x")
    /\ Captured(last.input).emitOn = List(<<"input">>)

\* C13: onBlur calls validation exactly when isTouched was false as the
\* blur was handled and validateDirtyOnly is false (not absent, not true);
\* it always leaves isTouched true and isFocused false.
C13_BlurValidation ==
    [][last'.op = "dispatch" =>
          \A k \in 1..Len(last'.ran) :
              LET call == last'.ran[k]
                  name == inputs[call.input].name
              IN  call.handler = EventsBlur =>
                      /\ call.validations =
                            IF /\ ~formData.at[name].isTouched
                               /\ Captured(call.input).validateDirtyOnly = "false"
                            THEN 1 ELSE 0
                      /\ call.field.isTouched
                      /\ ~call.field.isFocused
                      /\ formData'.at[name].isTouched
                      /\ ~formData'.at[name].isFocused]_vars

C13_Witness ==
    /\ Dispatched
    /\ last.type = EventsBlur
    /\ Captured(last.input).validateDirtyOnly = "false"
    /\ Captured(last.input).validateOn = ""
    /\ last.validated = <<last.input>>
    /\ formData.at[inputs[last.input].name].isTouched
    /\ ~formData.at[inputs[last.input].name].isDirty

\* A call of onChange for a control named n completed in the last dispatch
\* (validation did not throw in it).
ChangeCompleted(l, n) ==
    /\ l.op = "dispatch"
    /\ \E k \in 1..Len(l.ran) :
          /\ l.ran[k].handler = EventsChange
          /\ inputs[l.ran[k].input].name = n
          /\ ~l.ran[k].threw

\* C14: a field is dirty exactly if a call of its onChange has completed
\* its validation without throwing since the form was built: isDirty is
\* false as built, each step leaves it as it was unless such a call
\* completes in it, and then it is true whether the field is valid or not.
C14_DirtyFlag ==
    [][\A n \in DOMAIN formData'.at :
          formData'.at[n].isDirty <=>
              \/ n \in DOMAIN formData.at /\ formData.at[n].isDirty
              \/ ChangeCompleted(last', n)]_vars

C14_Witness ==
    /\ Dispatched
    /\ ChangeCompleted(last, inputs[last.input].name)
    /\ formData.at[inputs[last.input].name].isDirty
    /\ ~formData.at[inputs[last.input].name].isValid

\* C15: a call of onFocus sets isFocused of its field and changes nothing
\* else, calls no validation, and publishes exactly one focus event, unless
\* emitOn is present and does not contain focus, when it publishes none.
C15_FocusEffect ==
    [][last'.op = "dispatch" =>
          \A k \in 1..Len(last'.ran) :
              LET call == last'.ran[k]
                  name == inputs[call.input].name
                  emitOn == Captured(call.input).emitOn
              IN  call.handler = EventsFocus =>
                      /\ Len(last'.ran) = 1
                      /\ formData' = [formData EXCEPT !.at[name].isFocused = TRUE]
                      /\ call.validations = 0
                      /\ last'.validated = <<>>
                      /\ call.emitted =
                            IF emitOn.present /\ ~includes(emitOn.list, EventsFocus)
                            THEN 0 ELSE 1
                      /\ \A e \in 1..Len(last'.out) :
                            /\ last'.out[e].event = EventsFocus
                            /\ last'.out[e].payload = formData'.at[name]]_vars

C15_Witness ==
    /\ Dispatched
    /\ last.type = EventsFocus
    /\ Len(last.ran) = 1
    /\ last.out = <<>>
    /\ Captured(last.input).emitOn = List(<<EventsBlur>>)
    /\ formData.at[inputs[last.input].name].isFocused
    /\ ~formData.at[inputs[last.input].name].isValid

\* The event the change handler of control i is registered on, and the one
\* unsubscribeFromInputChanges looked for.
SubscribedOn(i) ==
    IF Captured(i).validateOn # "" THEN Captured(i).validateOn ELSE EventsChange
UnsubscribedFrom(i) ==
    LET o == OptionsFor(unsubscribedWith, inputs[i].name)
    IN  IF o.validateOn # "" THEN o.validateOn ELSE EventsChange

\* C16: after an unsubscription whose options resolve the change trigger of
\* a subscribed control to another event than the one it was subscribed on,
\* the control's change handler is still registered on the subscribed event
\* and is its only listener (focus and blur are detached); an event of that
\* type on it still runs onChange alone, which stores the value and
\* validates.
C16_OptionMismatch ==
    \A i \in 1..Len(inputs) :
        (subscription = "off" /\ SubscribedOn(i) # UnsubscribedFrom(i)) =>
            /\ listeners[i] = <<Listener(SubscribedOn(i), EventsChange, i, Captured(i))>>
            /\ (Dispatched /\ last.input = i /\ last.type = SubscribedOn(i)) =>
                  /\ Len(last.ran) = 1
                  /\ last.ran[1].handler = EventsChange
                  /\ last.ran[1].validations = 1
            /\ (Dispatched /\ last.input = i /\ last.type # SubscribedOn(i)) =>
                  last.ran = <<>>

\* The steps validate 1, ..., validate k.
Validations(k) == [j \in 1..k |-> Step("validate", j, "")]

\* C17 as stated: every call of onSubmit calls preventDefault first, then
\* validation once per control in declaration order, then emits the single
\* submit event.
C17_SubmitOrder ==
    Submitted =>
        last.trace = <<Step("preventDefault", 0, "")>>
                     \o Validations(Len(inputs))
                     \o <<Step("emit", 0, EventsSubmit)>>

\* C17 amended: every call of onSubmit calls preventDefault first and then
\* validation in declaration order, once per control up to and including
\* the first whose validation throws; when none throws every control is
\* validated and the single submit event is emitted after the last, and
\* when one throws no event is emitted.
C17_SubmitOrdering ==
    Submitted =>
        LET k == Len(last.validated)
        IN  /\ k \in 1..Len(inputs)
            /\ last.ran[1].threw <=>
                  Verdict(formData.at[inputs[k].name].value) = "throws"
            /\ ~last.ran[1].threw => k = Len(inputs)
            /\ last.trace = <<Step("preventDefault", 0, "")>>
                            \o Validations(k)
                            \o IF last.ran[1].threw THEN <<>>
                               ELSE <<Step("emit", 0, EventsSubmit)>>

C17_Witness ==
    /\ Submitted
    /\ ~last.ran[1].threw
    /\ Len(inputs) = 2
    /\ Len(last.trace) = 4
    /\ last.trace[4].step = "emit"
    /\ ~last.out[1].payload.isValid

\* The number of validate and emit steps of the first k calls of the last
\* dispatch.
RECURSIVE StepsOf(_)
StepsOf(k) ==
    IF k = 0 THEN 0
    ELSE StepsOf(k - 1) + last.ran[k].validations + last.ran[k].emitted
RECURSIVE EmitsOf(_)
EmitsOf(k) == IF k = 0 THEN 0 ELSE EmitsOf(k - 1) + last.ran[k].emitted

\* What onChange stores for control i on the target of the last dispatch.
ReadOf(i) ==
    IF isCheckbox(inputs[i]) THEN Bool(last.event.checked) ELSE Str(last.event.value)

\* C18: a field handler that publishes does so as its last step: the emit
\* is the last of its validate and emit steps and the field it passes is in
\* the state the call leaves it in; so a change event carries the new
\* value and isDirty, a blur event isTouched and no isFocused, a focus
\* event isFocused.
C18_PublishLast ==
    Dispatched =>
        \A k \in 1..Len(last.ran) :
            LET call == last.ran[k]
                payload == last.out[EmitsOf(k)].payload
            IN  call.emitted # 0 =>
                    /\ call.emitted = 1
                    /\ last.trace[StepsOf(k)].step = "emit"
                    /\ payload = call.field
                    /\ call.handler = EventsChange =>
                          payload.value = ReadOf(call.input) /\ payload.isDirty
                    /\ call.handler = EventsBlur =>
                          ~payload.isFocused /\ payload.isTouched
                    /\ call.handler = EventsFocus => payload.isFocused

C18_Witness ==
    /\ Dispatched
    /\ Len(last.ran) = 2
    /\ last.ran[1].handler = EventsChange
    /\ last.ran[1].emitted = 1
    /\ last.ran[2].emitted = 1
    /\ last.out[1].payload.isDirty
    /\ last.out[1].payload.isFocused
    /\ ~last.out[2].payload.isFocused
    /\ last.out[2].payload.isTouched

\* The form with every field but n put back in its state as built.
Scrubbed(form, n) ==
    [form EXCEPT !.at = [f \in DOMAIN form.at |->
        IF f = n THEN form.at[f] ELSE createFormData(inputs).at[f]]]

\* C19: a dispatch on a control named f leaves the keys of the form and
\* every field but f as they were, and what it makes of f does not depend
\* on the other fields: it is what the same listeners make of f on a form
\* whose other fields are as built.
C19_FieldIsolation ==
    [][last'.op = "dispatch" =>
          LET f == inputs[last'.input].name
              alone == DispatchTo(Run(Scrubbed(formData, f)), listeners[last'.input],
                                  last'.type, last'.event)
          IN  /\ formData'.keys = formData.keys
              /\ DOMAIN formData'.at = DOMAIN formData.at
              /\ \A n \in DOMAIN formData.at \ {f} : formData'.at[n] = formData.at[n]
              /\ formData'.at[f] = alone.form.at[f]
              /\ last'.out = alone.out]_vars

C19_Witness ==
    /\ Dispatched
    /\ Len(inputs) = 2
    /\ inputs[1].name # inputs[2].name
    /\ last.input = 1
    /\ last.type = EventsBlur
    /\ formData.at[inputs[1].name].isTouched
    /\ formData.at[inputs[2].name].isFocused
    /\ formData.at[inputs[2].name].isDirty
    /\ ~formData.at[inputs[2].name].isTouched

\* C20: a call of onChange that validation throws in has already stored
\* the new value: it leaves the field as it was but for the value, isDirty
\* included, and publishes nothing.
C20_PartialMutation ==
    [][last'.op = "dispatch" =>
          \A k \in 1..Len(last'.ran) :
              LET call == last'.ran[k]
                  name == inputs[call.input].name
                  read == IF isCheckbox(inputs[call.input])
                          THEN Bool(last'.event.checked)
                          ELSE Str(last'.event.value)
              IN  (call.handler = EventsChange /\ call.threw) =>
                      /\ k = 1
                      /\ call.field = [formData.at[name] EXCEPT !.value = read]
                      /\ call.emitted = 0
                      /\ formData'.at[name].value = read
                      /\ formData'.at[name].isDirty = formData.at[name].isDirty]_vars

C20_Witness ==
    /\ Dispatched
    /\ last.ran # <<>>
    /\ last.ran[1].handler = EventsChange
    /\ last.ran[1].threw
    /\ last.out = <<>>
    /\ formData.at[inputs[last.input].name].value = Str("boom")
    /\ ~formData.at[inputs[last.input].name].isDirty

====
